---------------------------- MODULE Spec2Model ----------------------------
(***************************************************************************)
(* A model of mean-feeder (src/src/main.rs): the feed refresh pipeline     *)
(* (fetch_feed, fetch_and_save, refresh_all), the persistent store         *)
(* (save_entries, load_entries), and the two threads that share the        *)
(* RwLock<FeedState>: the background fetcher and the HTTP accept loop.     *)
(*                                                                         *)
(* A Rust String is a sequence of characters, each a one-element TLA+      *)
(* string; Utf8Len gives the number of bytes a character takes, so that    *)
(* byte lengths and byte slices are computed as the code computes them.    *)
(* Option<T> is <<>> for None and <<x>> for Some(x).                       *)
(***************************************************************************)
EXTENDS Integers, Sequences, FiniteSets, TLC

(***************************************************************************)
(* Strings                                                                 *)
(*                                                                         *)
(* TLC evaluates an operator's argument each time the body uses it, so an  *)
(* operator that reads an argument often binds it first, once, as the      *)
(* element of a singleton set: Only({body : x \in {arg}}).                 *)
(***************************************************************************)

None == <<>>

Some(x) == <<x>>

Only(S) == CHOOSE v \in S : TRUE

\* A character outside ASCII; it is encoded in two bytes (U+00E9).
EAcute == "U+00E9"

Utf8Len(c) == IF c = EAcute THEN 2 ELSE 1

\* str::len: the length in bytes (summed by halves).
RECURSIVE ByteLen(_)
ByteLen(s0) ==
    Only({ IF s = <<>> THEN 0
           ELSE IF Len(s) = 1 THEN Utf8Len(s[1])
           ELSE ByteLen(SubSeq(s, 1, Len(s) \div 2))
                    + ByteLen(SubSeq(s, Len(s) \div 2 + 1, Len(s)))
           : s \in {s0} })

\* For each character of s, the byte offset at which it ends (by halves).
RECURSIVE ByteEnds(_)
ByteEnds(s0) ==
    Only({ IF s = <<>> THEN <<>>
           ELSE IF Len(s) = 1 THEN <<Utf8Len(s[1])>>
           ELSE Only({ l \o [i \in 1..Len(r) |-> r[i] + l[Len(l)]]
                       : l \in {ByteEnds(SubSeq(s, 1, Len(s) \div 2))},
                         r \in {ByteEnds(SubSeq(s, Len(s) \div 2 + 1, Len(s)))} })
           : s \in {s0} })

\* str::is_char_boundary
IsCharBoundary(s, n) ==
    n = 0 \/ \E ends \in {ByteEnds(s)} : \E k \in 1..Len(ends) : ends[k] = n

\* &s[a..b] for byte offsets a <= b that are character boundaries.
ByteSlice(s0, a, b) ==
    Only({ SubSeq(s,
                  IF a = 0 THEN 1 ELSE (CHOOSE k \in 1..Len(s) : ends[k] = a) + 1,
                  IF b = 0 THEN 0 ELSE CHOOSE k \in 1..Len(s) : ends[k] = b)
           : s \in {s0}, ends \in {ByteEnds(s0)} })

\* Whether &s[a..b] panics: an offset past the end or inside a character.
SlicePanics(s, a, b) ==
    \/ a > b
    \/ ~IsCharBoundary(s, a)
    \/ ~IsCharBoundary(s, b)

Repeat(c, n) == [i \in 1..n |-> c]

WhiteSpace == {" ", "\t", "\n", "\r"}

\* str::trim
Trim(s0) ==
    Only({ IF \A i \in 1..Len(s) : s[i] \in WhiteSpace THEN <<>>
           ELSE SubSeq(s,
                       CHOOSE i \in 1..Len(s) :
                           s[i] \notin WhiteSpace
                           /\ \A k \in 1..(i - 1) : s[k] \in WhiteSpace,
                       CHOOSE j \in 1..Len(s) :
                           s[j] \notin WhiteSpace
                           /\ \A k \in (j + 1)..Len(s) : s[k] \in WhiteSpace)
           : s \in {s0} })

\* Whether pat occurs in s at index i.
MatchAt(s, pat, i) ==
    i + Len(pat) - 1 <= Len(s) /\ SubSeq(s, i, i + Len(pat) - 1) = pat

\* The index of the first occurrence of pat in s, 0 if there is none.
Find(s0, pat) ==
    Only({ IF \E i \in 1..Len(s) : MatchAt(s, pat, i)
           THEN CHOOSE i \in 1..Len(s) :
                    MatchAt(s, pat, i) /\ \A k \in 1..(i - 1) : ~MatchAt(s, pat, k)
           ELSE 0
           : s \in {s0} })

\* str::replace(pat, rep) for a pattern that is not empty: every
\* non-overlapping match, left to right.
RECURSIVE Replace(_, _, _)
Replace(s0, pat, rep) ==
    Only({ IF i = 0 THEN s
           ELSE SubSeq(s, 1, i - 1) \o rep
                    \o Replace(SubSeq(s, i + Len(pat), Len(s)), pat, rep)
           : s \in {s0}, i \in {Find(s0, pat)} })

\* str::split(c): the pieces between occurrences of c (at least one piece).
RECURSIVE Split(_, _)
Split(s0, c) ==
    Only({ IF i = 0 THEN <<s>>
           ELSE <<SubSeq(s, 1, i - 1)>> \o Split(SubSeq(s, i + 1, Len(s)), c)
           : s \in {s0}, i \in {Find(s0, <<c>>)} })

\* str::splitn(n, c): at most n pieces, the last one holding the rest.
RECURSIVE SplitN(_, _, _)
SplitN(s0, n, c) ==
    Only({ IF n = 0 THEN <<>>
           ELSE IF n = 1 \/ i = 0 THEN <<s>>
           ELSE <<SubSeq(s, 1, i - 1)>> \o SplitN(SubSeq(s, i + 1, Len(s)), n - 1, c)
           : s \in {s0}, i \in {Find(s0, <<c>>)} })

StripCR(l) ==
    IF l # <<>> /\ l[Len(l)] = "\r" THEN SubSeq(l, 1, Len(l) - 1) ELSE l

\* str::lines: split at "\n", a final empty piece dropped, one trailing "\r"
\* removed from each line that ended with "\n".
Lines(s) ==
    Only({ [i \in 1..(IF pieces[Len(pieces)] = <<>>
                      THEN Len(pieces) - 1 ELSE Len(pieces)) |->
               IF i < Len(pieces) THEN StripCR(pieces[i]) ELSE pieces[i]]
           : pieces \in {Split(s, "\n")} })

\* str::split_whitespace: the maximal runs of characters that are not white
\* space, in order.
RECURSIVE SplitWhitespace(_)
SplitWhitespace(s0) ==
    Only({ IF \A i \in 1..Len(s) : s[i] \in WhiteSpace THEN <<>>
           ELSE Only({ Only({ <<SubSeq(s, from, to)>>
                                  \o SplitWhitespace(SubSeq(s, to + 1, Len(s)))
                              : to \in {CHOOSE j \in from..Len(s) :
                                           /\ \A k \in from..j : s[k] \notin WhiteSpace
                                           /\ j = Len(s) \/ s[j + 1] \in WhiteSpace} })
                       : from \in {CHOOSE i \in 1..Len(s) :
                                      s[i] \notin WhiteSpace
                                      /\ \A k \in 1..(i - 1) : s[k] \in WhiteSpace} })
           : s \in {s0} })

\* [&str]::join(sep)
RECURSIVE Join(_, _)
Join(parts, sep) ==
    IF parts = <<>> THEN <<>>
    ELSE IF Len(parts) = 1 THEN parts[1]
    ELSE parts[1] \o sep \o Join(Tail(parts), sep)

RECURSIVE Concat(_)
Concat(ss0) ==
    Only({ IF ss = <<>> THEN <<>> ELSE Head(ss) \o Concat(Tail(ss)) : ss \in {ss0} })

(***************************************************************************)
(* Integers as text                                                        *)
(***************************************************************************)

Digits == <<"0", "1", "2", "3", "4", "5", "6", "7", "8", "9">>

IsDigit(c) == \E d \in 1..10 : Digits[d] = c

DigitVal(c) == (CHOOSE d \in 1..10 : Digits[d] = c) - 1

\* The digits of i64::MAX and of the magnitude of i64::MIN.
I64MaxDigits ==
    <<"9","2","2","3","3","7","2","0","3","6","8","5","4","7","7","5","8","0","7">>

I64MinDigits ==
    <<"9","2","2","3","3","7","2","0","3","6","8","5","4","7","7","5","8","0","8">>

\* ds without its leading zeros (the last digit is kept).
StripZeros(ds) ==
    IF \A i \in 1..Len(ds) : ds[i] = "0" THEN <<"0">>
    ELSE SubSeq(ds, CHOOSE i \in 1..Len(ds) :
                        ds[i] # "0" /\ \A k \in 1..(i - 1) : ds[k] = "0", Len(ds))

\* a <= b for two digit strings of the same length.
RECURSIVE DigitsLeq(_, _)
DigitsLeq(a, b) ==
    IF a = <<>> THEN TRUE
    ELSE IF DigitVal(Head(a)) # DigitVal(Head(b))
         THEN DigitVal(Head(a)) < DigitVal(Head(b))
         ELSE DigitsLeq(Tail(a), Tail(b))

\* Whether the magnitude ds (digits only) fits an i64 of the given sign.
FitsI64(ds, negative) ==
    \E d \in {StripZeros(ds)} :
        \/ Len(d) < 19
        \/ Len(d) = 19 /\ DigitsLeq(d, IF negative THEN I64MinDigits ELSE I64MaxDigits)

RECURSIVE DigitsValue(_, _)
DigitsValue(s, acc) ==
    IF s = <<>> THEN acc
    ELSE DigitsValue(Tail(s), acc * 10 + DigitVal(Head(s)))

\* str::parse::<i64>: an optional sign, then one or more ASCII digits, the
\* value within the range of i64; anything else is an error (None).
ParseI64(s0) ==
    Only({ LET signed   == s # <<>> /\ Head(s) \in {"+", "-"}
               negative == signed /\ Head(s) = "-"
               ds       == IF signed THEN Tail(s) ELSE s
           IN  IF ds = <<>> \/ \E i \in 1..Len(ds) : ~IsDigit(ds[i]) THEN None
               ELSE IF ~FitsI64(ds, negative) THEN None
               ELSE IF negative THEN Some(0 - DigitsValue(ds, 0))
               ELSE Some(DigitsValue(ds, 0))
           : s \in {s0} })

RECURSIVE NatToString(_)
NatToString(n) ==
    IF n < 10 THEN <<Digits[n + 1]>>
    ELSE NatToString(n \div 10) \o <<Digits[(n % 10) + 1]>>

\* i64::to_string
I64ToString(n) == IF n < 0 THEN <<"-">> \o NatToString(0 - n) ELSE NatToString(n)

(***************************************************************************)
(* Persistent store                                                        *)
(***************************************************************************)

sanitize_field(s) == Replace(Replace(s, <<"\t">>, <<" ">>), <<"\n">>, <<" ">>)

\* The record save_entries writes for one entry, with its line break.
SaveLine(e0) ==
    Only({ sanitize_field(e.id) \o <<"\t">>
               \o sanitize_field(e.title) \o <<"\t">>
               \o sanitize_field(e.link) \o <<"\t">>
               \o (IF e.published = None THEN <<>> ELSE I64ToString(e.published[1]))
               \o <<"\t">>
               \o sanitize_field(e.feed_title) \o <<"\t">>
               \o sanitize_field(IF e.summary = None THEN <<>> ELSE e.summary[1])
               \o <<"\n">>
           : e \in {e0} })

\* The text save_entries hands to std::fs::write.
SaveText(entries0) ==
    Only({ Concat([i \in 1..Len(entries) |-> SaveLine(entries[i])])
           : entries \in {entries0} })

\* A load that drops a line whose published field is no integer.
LoadLineOrDrop(line) ==
    Only({ IF Len(f) < 6 THEN None
           ELSE IF f[4] # <<>> /\ ParseI64(f[4]) = None THEN None
           ELSE Some([id         |-> f[1],
                      title      |-> f[2],
                      link       |-> f[3],
                      published  |-> ParseI64(f[4]),
                      feed_title |-> f[5],
                      summary    |-> IF f[6] = <<>> THEN None ELSE Some(f[6])])
           : f \in {SplitN(line, 6, "\t")} })

\* The Entry load_entries builds from one line, or None for a line of fewer
\* than six fields.
LoadLine(line) ==
    Only({ IF Len(f) < 6 THEN None
           ELSE Some([id         |-> f[1],
                      title      |-> f[2],
                      link       |-> f[3],
                      published  |-> ParseI64(f[4]),
                      feed_title |-> f[5],
                      summary    |-> IF f[6] = <<>> THEN None ELSE Some(f[6])])
           : f \in {SplitN(line, 6, "\t")} })

RECURSIVE FilterMapLines(_)
FilterMapLines(ls0) ==
    Only({ IF ls = <<>> THEN <<>>
           ELSE LoadLine(Head(ls)) \o FilterMapLines(Tail(ls))
           : ls \in {ls0} })

\* A file is None when it does not exist (or cannot be read), else Some(text).
load_entries(file) ==
    IF file = None THEN <<>> ELSE FilterMapLines(Lines(file[1]))

(***************************************************************************)
(* Timestamp parsing                                                       *)
(*                                                                         *)
(* A function that can panic returns [panic, val]: panic is TRUE when the  *)
(* call panics (a byte slice that ends inside a character), and val is the *)
(* value returned otherwise.                                               *)
(***************************************************************************)

Panicked == [panic |-> TRUE, val |-> None]

Returned(v) == [panic |-> FALSE, val |-> v]

\* s.as_bytes()[i]: the ASCII character at byte offset i, or a byte of a
\* character outside ASCII.
ByteAt(s, i) ==
    Only({ IF \E k \in 1..Len(ends) : ends[k] = i + 1 /\ Utf8Len(s[k]) = 1
           THEN s[CHOOSE k \in 1..Len(ends) : ends[k] = i + 1]
           ELSE "\\x80"
           : ends \in {ByteEnds(s)} })

\* Integer division of i64: the quotient is truncated toward zero.
TruncDiv(a, b) == IF a >= 0 THEN a \div b ELSE 0 - ((0 - a) \div b)

days_since_epoch(year, month, day) ==
    LET y   == IF month <= 2 THEN year - 1 ELSE year
        m   == IF month <= 2 THEN month + 9 ELSE month - 3
        era == TruncDiv(y, 400)
        yoe == y - era * 400
        doy == TruncDiv(153 * m + 2, 5) + day - 1
        doe == yoe * 365 + TruncDiv(yoe, 4) - TruncDiv(yoe, 100) + doy
    IN  era * 146097 + doe - 719468

\* s[a..b].parse().ok()? for each byte range of rs in turn: the parsed
\* integers, None at the first that does not parse, a panic at the first
\* range that does not lie on character boundaries.
RECURSIVE ParseRanges(_, _, _)
ParseRanges(s, rs, acc) ==
    IF rs = <<>> THEN Returned(Some(acc))
    ELSE IF SlicePanics(s, Head(rs)[1], Head(rs)[2]) THEN Panicked
    ELSE Only({ IF v = None THEN Returned(None)
                ELSE ParseRanges(s, Tail(rs), Append(acc, v[1]))
                : v \in {ParseI64(ByteSlice(s, Head(rs)[1], Head(rs)[2]))} })

Timestamp(year, month, day, hour, min, sec) ==
    days_since_epoch(year, month, day) * 86400 + hour * 3600 + min * 60 + sec

\* The zone suffix of parse_rfc3339 applied to the timestamp ts.
Rfc3339Zone(ts, rest) ==
    IF rest # <<>> /\ Head(rest) \in {"Z", "z"} THEN Returned(Some(ts))
    ELSE IF ByteLen(rest) >= 6 /\ Head(rest) \in {"+", "-"}
    THEN Only({ IF o.panic \/ o.val = None THEN o
                ELSE Returned(Some(ts - (IF Head(rest) = "-" THEN -1 ELSE 1)
                                        * (o.val[1][1] * 3600 + o.val[1][2] * 60)))
                : o \in {ParseRanges(rest, << <<1, 3>>, <<4, 6>> >>, <<>>)} })
    ELSE Returned(Some(ts))

parse_rfc3339(s) ==
    Only({ IF f.panic \/ f.val = None THEN f
           ELSE Only({ Rfc3339Zone(Timestamp(d[1], d[2], d[3], d[4], d[5], d[6]), rest)
                       : d \in {f.val[1]}, rest \in {ByteSlice(s, 19, ByteLen(s))} })
           : f \in {ParseRanges(s, << <<0, 4>>, <<5, 7>>, <<8, 10>>,
                                      <<11, 13>>, <<14, 16>>, <<17, 19>> >>, <<>>)} })

UpperCase ==
    <<"A","B","C","D","E","F","G","H","I","J","K","L","M",
      "N","O","P","Q","R","S","T","U","V","W","X","Y","Z">>

LowerCase ==
    <<"a","b","c","d","e","f","g","h","i","j","k","l","m",
      "n","o","p","q","r","s","t","u","v","w","x","y","z">>

\* str::to_ascii_lowercase
ToAsciiLowercase(s) ==
    [i \in 1..Len(s) |->
        IF \E k \in 1..26 : UpperCase[k] = s[i]
        THEN LowerCase[CHOOSE k \in 1..26 : UpperCase[k] = s[i]]
        ELSE s[i]]

MonthNames ==
    << <<"j","a","n">>, <<"f","e","b">>, <<"m","a","r">>, <<"a","p","r">>,
       <<"m","a","y">>, <<"j","u","n">>, <<"j","u","l">>, <<"a","u","g">>,
       <<"s","e","p">>, <<"o","c","t">>, <<"n","o","v">>, <<"d","e","c">> >>

\* The named zones of parse_tz_offset with their offsets in hours.
ZoneHours ==
    << <<<<"G","M","T">>, 0>>, <<<<"U","T","C">>, 0>>, <<<<"U","T">>, 0>>,
       <<<<"Z">>, 0>>,
       <<<<"E","S","T">>, -5>>, <<<<"E","D","T">>, -4>>,
       <<<<"C","S","T">>, -6>>, <<<<"C","D","T">>, -5>>,
       <<<<"M","S","T">>, -7>>, <<<<"M","D","T">>, -6>>,
       <<<<"P","S","T">>, -8>>, <<<<"P","D","T">>, -7>> >>

\* s[a..b].parse().unwrap_or(0)
ParseOrZero(s, a, b) ==
    LET v == ParseI64(ByteSlice(s, a, b)) IN IF v = None THEN 0 ELSE v[1]

\* A parse_tz_offset that reads the digits of a numeric zone and not its sign.
parse_tz_offset_unsigned(s) ==
    IF \E k \in 1..Len(ZoneHours) : ZoneHours[k][1] = s
    THEN Returned(ZoneHours[CHOOSE k \in 1..Len(ZoneHours) :
                                ZoneHours[k][1] = s][2] * 3600)
    ELSE IF ByteLen(s) >= 5 /\ Head(s) \in {"+", "-"}
    THEN IF SlicePanics(s, 1, 3) \/ SlicePanics(s, 3, 5) THEN Panicked
         ELSE Returned(ParseOrZero(s, 1, 3) * 3600 + ParseOrZero(s, 3, 5) * 60)
    ELSE Returned(0)

parse_tz_offset(s) ==
    IF \E k \in 1..Len(ZoneHours) : ZoneHours[k][1] = s
    THEN Returned(ZoneHours[CHOOSE k \in 1..Len(ZoneHours) :
                                ZoneHours[k][1] = s][2] * 3600)
    ELSE IF ByteLen(s) >= 5 /\ Head(s) \in {"+", "-"}
    THEN IF SlicePanics(s, 1, 3) \/ SlicePanics(s, 3, 5) THEN Panicked
         ELSE Returned((IF Head(s) = "-" THEN -1 ELSE 1)
                       * (ParseOrZero(s, 1, 3) * 3600 + ParseOrZero(s, 3, 5) * 60))
    ELSE Returned(0)

\* The integers of parts, None at the first that does not parse.
RECURSIVE ParseAll(_, _)
ParseAll(parts, acc) ==
    IF parts = <<>> THEN Some(acc)
    ELSE Only({ IF v = None THEN None ELSE ParseAll(Tail(parts), Append(acc, v[1]))
                : v \in {ParseI64(Head(parts))} })

\* s after the first comma, trimmed, if s has a comma.
AfterDayName(s) ==
    Only({ IF i = 0 THEN s ELSE Trim(SubSeq(s, i + 1, Len(s)))
           : i \in {Find(s, <<",">>)} })

\* parse_rfc2822 from the split into parts on.
Rfc2822Parts(parts) ==
    IF Len(parts) < 4 THEN Returned(None)
    ELSE Only({
        IF day = None THEN Returned(None)
        ELSE IF ~\E m \in 1..12 : MonthNames[m] = mname THEN Returned(None)
        ELSE IF year = None THEN Returned(None)
        ELSE IF Len(tp) < 3 THEN Returned(None)
        ELSE Only({
            IF hms = None THEN Returned(None)
            ELSE Only({
                IF off.panic THEN Panicked
                ELSE Returned(Some(
                         Timestamp(year[1], CHOOSE m \in 1..12 : MonthNames[m] = mname,
                                   day[1], hms[1][1], hms[1][2], hms[1][3])
                         - off.val))
                : off \in {IF Len(parts) > 4 THEN parse_tz_offset(parts[5])
                           ELSE Returned(0)} })
            : hms \in {ParseAll(SubSeq(tp, 1, 3), <<>>)} })
        : day \in {ParseI64(parts[1])}, mname \in {ToAsciiLowercase(parts[2])},
          year \in {ParseI64(parts[3])}, tp \in {Split(parts[4], ":")} })

parse_rfc2822(s0) ==
    Only({ Rfc2822Parts(parts) : parts \in {SplitWhitespace(AfterDayName(s0))} })

parse_timestamp(raw) ==
    Only({ IF ByteLen(s) >= 19 /\ ByteAt(s, 4) = "-" /\ ByteAt(s, 10) = "T"
           THEN parse_rfc3339(s)
           ELSE parse_rfc2822(s)
           : s \in {Trim(raw)} })

(***************************************************************************)
(* Entry normalisation (fetch_feed)                                        *)
(***************************************************************************)

\* in_tag when the loop of strip_html reaches the i-th character: the last
\* angle bracket before it, if any, is an opening one.
InTagAt(s, i) ==
    \E j \in 1..(i - 1) :
        s[j] = "<" /\ \A k \in (j + 1)..(i - 1) : s[k] \notin {"<", ">"}

Kept(p) == p[2]

\* The characters the loop of strip_html pushes to result.
StripTags(s0) ==
    Only({ Only({ [i \in 1..Len(kept) |-> kept[i][1]]
                  : kept \in {SelectSeq([i \in 1..Len(s) |->
                                 <<s[i], s[i] \notin {"<", ">"} /\ ~InTagAt(s, i)>>],
                              Kept)} })
           : s \in {s0} })

\* The replacements of decode_entities, in the order they are applied.
Entities ==
    << << <<"&","a","m","p",";">>, <<"&">> >>,
       << <<"&","l","t",";">>, <<"<">> >>,
       << <<"&","g","t",";">>, <<">">> >>,
       << <<"&","q","u","o","t",";">>, <<"\"">> >>,
       << <<"&","#","3","9",";">>, <<"'">> >>,
       << <<"&","a","p","o","s",";">>, <<"'">> >>,
       << <<"&","#","x","2","7",";">>, <<"'">> >>,
       << <<"&","n","b","s","p",";">>, <<" ">> >> >>

RECURSIVE ReplaceEach(_, _)
ReplaceEach(s, reps) ==
    IF reps = <<>> THEN s
    ELSE ReplaceEach(Replace(s, Head(reps)[1], Head(reps)[2]), Tail(reps))

decode_entities(s) == ReplaceEach(s, Entities)

strip_html(s) == decode_entities(StripTags(s))

\* The length in bytes past which fetch_feed cuts a summary.
SummaryLimit == 200

Ellipsis == <<".", ".", ".">>

Comments == <<"C","o","m","m","e","n","t","s">>

Untitled == <<"(","u","n","t","i","t","l","e","d",")">>

\* The first two lines of the stripped and trimmed text, joined by a space.
TwoLine(stripped) ==
    Only({ Join(SubSeq(ls, 1, IF Len(ls) < 2 THEN Len(ls) ELSE 2), <<" ">>)
           : ls \in {Lines(stripped)} })

\* The closure fetch_feed maps over a present raw summary, before the filter.
SummaryText(raw) ==
    Only({ IF ByteLen(twoline) > SummaryLimit
           THEN IF SlicePanics(twoline, 0, SummaryLimit) THEN Panicked
                ELSE Returned(ByteSlice(twoline, 0, SummaryLimit) \o Ellipsis)
           ELSE Returned(twoline)
           : twoline \in {TwoLine(Trim(strip_html(raw)))} })

\* The key of an item within its feed: its id, or its link when it has none.
entry_id(raw) == IF raw.id = <<>> THEN raw.link ELSE raw.id

\* The id fetch_feed gives an item of the feed at url: format!("{url}#{entry_id}").
EntryId(url, raw) == url \o <<"#">> \o entry_id(raw)

\* The summary of the Entry: the text, unless it is empty or "Comments".
Summary(raw_summary) ==
    IF raw_summary = None THEN Returned(None)
    ELSE Only({ IF t.panic THEN Panicked
                ELSE IF t.val # <<>> /\ t.val # Comments THEN Returned(Some(t.val))
                ELSE Returned(None)
                : t \in {SummaryText(raw_summary[1])} })

\* The Entry fetch_feed builds from one raw entry of the feed at url.
Normalize(url, feed_title, raw) ==
    Only({ IF published.panic \/ summary.panic THEN Panicked
           ELSE Returned([id         |-> EntryId(url, raw),
                          title      |-> IF raw.title = <<>> THEN Untitled ELSE raw.title,
                          link       |-> raw.link,
                          published  |-> published.val,
                          feed_title |-> feed_title,
                          summary    |-> summary.val])
           : published \in {IF raw.published = None THEN Returned(None)
                            ELSE parse_timestamp(raw.published[1])},
             summary \in {Summary(raw.summary)} })

RECURSIVE NormalizeAll(_, _, _, _)
NormalizeAll(url, feed_title, raws, acc) ==
    IF raws = <<>> THEN Returned(acc)
    ELSE Only({ IF e.panic THEN Panicked
                ELSE NormalizeAll(url, feed_title, Tail(raws), Append(acc, e.val))
                : e \in {Normalize(url, feed_title, Head(raws))} })

\* A response is what the agent and parse_feed make of one GET: failed is
\* TRUE when the call or the read of the body fails, and otherwise feed_title
\* and entries are what parse_feed returns for the body.
FetchFailed == [failed |-> TRUE, feed_title |-> <<>>, entries |-> <<>>]

Fetched(feed_title, entries) ==
    [failed |-> FALSE, feed_title |-> feed_title, entries |-> entries]

\* A fetch_feed that gives up on a failed GET instead of returning nothing.
fetch_feed_or_die(url, resp) ==
    IF resp.failed THEN Panicked
    ELSE NormalizeAll(url,
                      IF resp.feed_title = <<>> THEN url ELSE resp.feed_title,
                      resp.entries, <<>>)

fetch_feed(url, resp) ==
    IF resp.failed THEN Returned(<<>>)
    ELSE NormalizeAll(url,
                      IF resp.feed_title = <<>> THEN url ELSE resp.feed_title,
                      resp.entries, <<>>)

(***************************************************************************)
(* Dedup and ordering (fetch_and_save)                                     *)
(***************************************************************************)

\* A dedup that keeps, of the entries of one id, the last.
RECURSIVE DedupKeepsLast(_, _)
DedupKeepsLast(entries, seen) ==
    IF entries = <<>> THEN <<>>
    ELSE IF \E i \in 2..Len(entries) : entries[i].id = Head(entries).id
    THEN DedupKeepsLast(Tail(entries), seen)
    ELSE <<Head(entries)>> \o DedupKeepsLast(Tail(entries), seen)

\* The loop over all_entries: an entry is kept when its id is not yet in seen.
RECURSIVE Dedup(_, _)
Dedup(entries0, seen0) ==
    Only({ IF entries = <<>> THEN <<>>
           ELSE IF Head(entries).id \in seen THEN Dedup(Tail(entries), seen)
           ELSE <<Head(entries)>> \o Dedup(Tail(entries), seen \cup {Head(entries).id})
           : entries \in {entries0}, seen \in {seen0} })

\* Option<i64>::cmp(a, b) = Less: None is below every Some.
OptionLess(a, b) ==
    \/ a = None /\ b # None
    \/ a # None /\ b # None /\ a[1] < b[1]

\* A comparator that puts the oldest first.
OldestFirst(a, b) == OptionLess(a.published, b.published)

\* The comparator of the sort says a goes before b: b.published < a.published.
Before(a, b) == OptionLess(b.published, a.published)

\* An insertion that puts e in front of the elements it compares equal to:
\* a sort that is not stable.
RECURSIVE InsertBeforeEquals(_, _)
InsertBeforeEquals(s0, e) ==
    Only({ IF s = <<>> THEN <<e>>
           ELSE IF ~Before(s[Len(s)], e)
           THEN Append(InsertBeforeEquals(SubSeq(s, 1, Len(s) - 1), e), s[Len(s)])
           ELSE Append(s, e)
           : s \in {s0} })

\* e put into the sorted sequence s behind every element it does not go before.
RECURSIVE InsertSorted(_, _)
InsertSorted(s0, e) ==
    Only({ IF s = <<>> THEN <<e>>
           ELSE IF Before(e, s[Len(s)])
           THEN Append(InsertSorted(SubSeq(s, 1, Len(s) - 1), e), s[Len(s)])
           ELSE Append(s, e)
           : s \in {s0} })

\* slice::sort_by: a stable sort.
RECURSIVE SortBy(_)
SortBy(s0) ==
    Only({ IF s = <<>> THEN <<>>
           ELSE InsertSorted(SortBy(SubSeq(s, 1, Len(s) - 1)), s[Len(s)])
           : s \in {s0} })

(***************************************************************************)
(* Configuration and inputs                                                *)
(***************************************************************************)

\* The most refresh cycles a run of the model begins.
MaxCycles == 2

\* The most connections waiting in the listener's queue.
MaxPending == 1

\* The feed lists load_feeds returns: two main feeds and one noisy feed.
UrlA == <<"u", "a">>

UrlB == <<"u", "b">>

UrlC == <<"u", "c">>

MainFeeds == <<UrlA, UrlB>>

NoisyFeeds == <<UrlC>>

Feeds(cat) == IF cat = "main" THEN MainFeeds ELSE NoisyFeeds

Categories == <<"main", "noisy">>

\* A server that hands every connection to a thread of its own.
ThreadPerConnection == {"main", "worker"}

\* The threads that run handle_connection: main runs it itself, one
\* connection after the other, in its loop over listener.incoming().
Handlers == {"main"}

Raw(id, title, link, published, summary) ==
    [id |-> id, title |-> title, link |-> link,
     published |-> published, summary |-> summary]

Date3339 ==
    <<"2","0","2","4","-","0","1","-","1","5","T","1","0",":","3","0",":","0","0","Z">>

Date2822 ==
    <<"M","o","n",","," ","1","5"," ","J","a","n"," ","2","0","2","4"," ",
      "1","0",":","3","0",":","0","0"," ","+","0","2","0","0">>

\* A feed with a title: an item without guid, date and title; two items with
\* the same guid, dated in the two grammars; and a later item with a summary
\* in markup.
DocFeed ==
    Fetched(<<"A">>,
            << Raw(<<>>, <<>>, <<"l">>, None, None),
               Raw(<<"g">>, <<"t","1">>, <<"l">>, Some(Date2822), None),
               Raw(<<"g">>, <<"t","2">>, <<>>, Some(Date3339), None),
               Raw(<<"h">>, <<"t">>, <<>>, Some(Date3339),
                   Some(<<"<","b",">","H","i","<","/","b",">">>)) >>)

\* A feed whose item has a summary of 202 bytes with a two-byte character
\* at byte offsets 199 and 200.
DocLongSummary ==
    Fetched(<<"A">>,
            << Raw(<<"g">>, <<"t">>, <<"l">>, None,
                   Some(Repeat("x", 199) \o <<EAcute, "y">>)) >>)

\* A feed whose two items have guids that differ in a tab against a space.
DocTabGuid ==
    Fetched(<<"A">>,
            << Raw(<<"a","\t","b">>, <<"t">>, <<"l">>, Some(Date3339), None),
               Raw(<<"a"," ","b">>, <<"t">>, <<"l">>, None, None) >>)

\* What a GET may give in the runs of Spec.
Responses == {FetchFailed, DocFeed, DocLongSummary}

\* fetch_feed on every feed and every document of the runs, computed once.
FetchResults ==
    [url \in {UrlA, UrlB, UrlC},
     resp \in {FetchFailed, DocFeed, DocLongSummary, DocTabGuid}
        |-> fetch_feed(url, resp)]

(***************************************************************************)
(* State                                                                   *)
(***************************************************************************)

VARIABLES
    state,         \* the FeedState in the RwLock: [main, noisy]
    ver,           \* per category, the cycle that installed it (0: loaded at start)
    lock_readers,  \* the handlers holding a read guard
    lock_writer,   \* whether the fetcher holds the write guard
    files,         \* entries.tsv and noisy-entries.tsv: [main, noisy], None if absent
    bg_pc,         \* where the background fetcher thread is
    bg_cat,        \* the category of the fetch_and_save call in progress
    bg_idx,        \* the index of the next feed of the loop over feeds
    all_entries,   \* fetch_and_save's all_entries
    deduped,       \* fetch_and_save's deduped
    bg_local,      \* refresh_all's locals main and noisy
    cycle,         \* the number of refresh cycles begun
    got,           \* per category, what the GETs of this cycle gave, in order
    handed,        \* per category, what this cycle gave to save_entries and how
                   \* the write ended, None until then
    rd_pc,         \* where each handler is
    rd_seen,       \* per handler, what render_page has read: [main, noisy, vmain, vnoisy]
    pending,       \* connections waiting in the listener's queue
    arg,           \* the input of a function under study, None if there is none
    res,           \* its result, None until it is applied
    reader,        \* the quick_xml Reader of parse_feed, with what it has read
    parser         \* the local variables of parse_feed

vars ==
    <<state, ver, lock_readers, lock_writer, files, bg_pc, bg_cat, bg_idx,
      all_entries, deduped, bg_local, cycle, got, handed, rd_pc, rd_seen, pending,
      arg, res, reader, parser>>

bg_vars ==
    <<bg_pc, bg_cat, bg_idx, all_entries, deduped, bg_local, cycle, got, handed>>

rd_vars == <<rd_pc, rd_seen, pending>>

xml_vars == <<reader, parser>>

fn_vars == <<arg, res, xml_vars>>

\* Reader::from_reader(xml) before its first event: n events read, the names
\* of the elements open, and why it stopped. What else it holds is the
\* history of the document read so far:
\*   elements    the item/entry elements that have ended,
\*   ended       the end tags of item/entry elements read,
\*   flat        none of them was empty or inside another,
\*   content     the texts and attribute values in the item/entry being read,
\*   inside      those of each item/entry that has ended, in document order,
\*   title_at    the depth of the first feed title element while it is open,
\*   title_text  the first text in it so far,
\*   first_title its text once it has ended,
\*   last        the event read last.
NewReader ==
    [n |-> 0, open |-> <<>>, stopped |-> "no",
     elements |-> 0, ended |-> 0, flat |-> TRUE, content |-> {}, inside |-> <<>>,
     title_at |-> 0, title_text |-> None, first_title |-> None, last |-> None]

\* The locals of parse_feed before its loop; result is what it returns.
NewParser ==
    [feed_title |-> <<>>, entries |-> <<>>, depth |-> 0,
     in_entry |-> FALSE, in_feed_title |-> FALSE, current_tag |-> <<>>,
     entry_id |-> <<>>, entry_title |-> <<>>, entry_link |-> <<>>,
     entry_published |-> None, entry_summary |-> None,
     result |-> None]

NothingGot == [main |-> <<>>, noisy |-> <<>>]

NothingHanded == [main |-> None, noisy |-> None]

NotSeen == [main |-> None, noisy |-> None, vmain |-> -1, vnoisy |-> -1]

\* The program with its data files fs, the fetcher at pc in its cycle n with
\* the entries fetched so far, and the input under study.
InState(fs, pc, n, entries, input) ==
    /\ files = fs
    /\ state = [main |-> load_entries(fs.main), noisy |-> load_entries(fs.noisy)]
    /\ ver = [main |-> 0, noisy |-> 0]
    /\ lock_readers = {}
    /\ lock_writer = FALSE
    /\ bg_pc = pc
    /\ bg_cat = "main"
    /\ bg_idx = 1
    /\ all_entries = entries
    /\ deduped = <<>>
    /\ bg_local = [main |-> <<>>, noisy |-> <<>>]
    /\ cycle = n
    /\ got = NothingGot
    /\ handed = NothingHanded
    /\ rd_pc = [h \in Handlers |-> "accept"]
    /\ rd_seen = [h \in Handlers |-> NotSeen]
    /\ pending = 0
    /\ arg = input
    /\ res = None
    /\ reader = NewReader
    /\ parser = NewParser

\* main() up to the spawn of the fetcher, the data files being as given.
Started(fs) == InState(fs, "spawned", 0, <<>>, None)

NoFiles == [main |-> None, noisy |-> None]

\* The first start: no data file exists yet.
Init == Started(NoFiles)

(***************************************************************************)
(* The background fetcher thread                                           *)
(***************************************************************************)

\* A refresh_all that takes the write guard before it fetches.
BeginRefreshLocked ==
    /\ bg_cat' = "main"
    /\ bg_idx' = 1
    /\ all_entries' = <<>>
    /\ deduped' = <<>>
    /\ bg_pc' = "fetch"
    /\ cycle' = cycle + 1
    /\ got' = NothingGot
    /\ handed' = NothingHanded
    /\ lock_readers = {}
    /\ lock_writer' = TRUE
    /\ UNCHANGED <<state, ver, lock_readers, files, bg_local, rd_vars, fn_vars>>

BeginRefresh ==
    /\ bg_cat' = "main"
    /\ bg_idx' = 1
    /\ all_entries' = <<>>
    /\ deduped' = <<>>
    /\ bg_pc' = "fetch"
    /\ cycle' = cycle + 1
    /\ got' = NothingGot
    /\ handed' = NothingHanded
    /\ UNCHANGED <<state, ver, lock_readers, lock_writer, files, bg_local, rd_vars,
                   fn_vars>>

\* The thread starts with a call of refresh_all.
ColdStart ==
    /\ bg_pc = "spawned"
    /\ BeginRefresh

\* The sleep of secs_until_fetch() seconds ends and refresh_all is called.
WakeUp ==
    /\ bg_pc = "sleep"
    /\ cycle < MaxCycles
    /\ BeginRefresh

\* One turn of the loop over feeds: fetch_feed(agent, url) and extend.  A
\* panic in fetch_feed unwinds the thread, which ends.
FetchFeed(R) ==
    /\ bg_pc = "fetch"
    /\ bg_idx <= Len(Feeds(bg_cat))
    /\ \E resp \in R : \E r \in {FetchResults[Feeds(bg_cat)[bg_idx], resp]} :
           /\ got' = [got EXCEPT ![bg_cat] = Append(@, resp)]
           /\ IF r.panic
              THEN /\ bg_pc' = "panicked"
                   /\ UNCHANGED <<bg_idx, all_entries>>
              ELSE /\ all_entries' = all_entries \o r.val
                   /\ bg_idx' = bg_idx + 1
                   /\ bg_pc' = "fetch"
    /\ UNCHANGED <<state, ver, lock_readers, lock_writer, files, bg_cat, deduped,
                   bg_local, cycle, handed, rd_vars, fn_vars>>

\* A fetch_and_save that starts from the collection the cell holds: the
\* entries published before are merged with those fetched.
FetchDoneKeepingOld ==
    /\ bg_pc = "fetch"
    /\ bg_idx > Len(Feeds(bg_cat))
    /\ all_entries' = all_entries \o state[bg_cat]
    /\ bg_pc' = "dedup"
    /\ UNCHANGED <<state, ver, lock_readers, lock_writer, files, bg_cat, bg_idx,
                   deduped, bg_local, cycle, got, handed, rd_vars, fn_vars>>

\* The loop over feeds is over.
FetchDone ==
    /\ bg_pc = "fetch"
    /\ bg_idx > Len(Feeds(bg_cat))
    /\ bg_pc' = "dedup"
    /\ UNCHANGED <<state, ver, lock_readers, lock_writer, files, bg_cat, bg_idx,
                   all_entries, deduped, bg_local, cycle, got, handed,
                   rd_vars, fn_vars>>

DedupEntries ==
    /\ bg_pc = "dedup"
    /\ deduped' = Dedup(all_entries, {})
    /\ bg_pc' = "sort"
    /\ UNCHANGED <<state, ver, lock_readers, lock_writer, files, bg_cat, bg_idx,
                   all_entries, bg_local, cycle, got, handed,
                   rd_vars, fn_vars>>

SortEntries ==
    /\ bg_pc = "sort"
    /\ deduped' = SortBy(deduped)
    /\ bg_pc' = "save"
    /\ UNCHANGED <<state, ver, lock_readers, lock_writer, files, bg_cat, bg_idx,
                   all_entries, bg_local, cycle, got, handed,
                   rd_vars, fn_vars>>

\* What std::fs::write may leave of a file: the text on success; on failure
\* the file as it was, or cut to nothing.
Written(old, text) == {Some(text), old, Some(<<>>)}

\* The entries given to save_entries and whether std::fs::write returned Ok.
Handed(entries, ok) == Some([entries |-> entries, ok |-> ok])

\* A save_entries that unwraps the result of the write: a failed write ends
\* the thread.
SaveEntriesOrDie ==
    /\ bg_pc = "save"
    /\ \E f \in Written(files[bg_cat], SaveText(deduped)) : \E ok \in BOOLEAN :
          /\ ok => f = Some(SaveText(deduped))
          /\ files' = [files EXCEPT ![bg_cat] = f]
          /\ handed' = [handed EXCEPT ![bg_cat] = Handed(deduped, ok)]
          /\ IF ~ok
             THEN /\ bg_pc' = "panicked"
                  /\ UNCHANGED <<bg_local, bg_cat, bg_idx, all_entries>>
             ELSE /\ bg_local' = [bg_local EXCEPT ![bg_cat] = deduped]
                  /\ IF bg_cat = "main"
                     THEN /\ bg_cat' = "noisy"
                          /\ bg_idx' = 1
                          /\ all_entries' = <<>>
                          /\ bg_pc' = "fetch"
                     ELSE /\ bg_pc' = "write_lock"
                          /\ UNCHANGED <<bg_cat, bg_idx, all_entries>>
    /\ UNCHANGED <<state, ver, lock_readers, lock_writer, deduped, cycle, got, rd_vars,
                   fn_vars>>

\* save_entries, whose result is dropped, and the return of deduped to
\* refresh_all, which goes on with the noisy feeds or with the write lock.
\* The write returns Ok with the text in the file, or Err with the file as
\* one of what Written gives.
SaveEntries ==
    /\ bg_pc = "save"
    /\ \E f \in Written(files[bg_cat], SaveText(deduped)) : \E ok \in BOOLEAN :
          /\ ok => f = Some(SaveText(deduped))
          /\ files' = [files EXCEPT ![bg_cat] = f]
          /\ handed' = [handed EXCEPT ![bg_cat] = Handed(deduped, ok)]
    /\ bg_local' = [bg_local EXCEPT ![bg_cat] = deduped]
    /\ IF bg_cat = "main"
       THEN /\ bg_cat' = "noisy"
            /\ bg_idx' = 1
            /\ all_entries' = <<>>
            /\ bg_pc' = "fetch"
       ELSE /\ bg_pc' = "write_lock"
            /\ UNCHANGED <<bg_cat, bg_idx, all_entries>>
    /\ UNCHANGED <<state, ver, lock_readers, lock_writer, deduped, cycle, got, rd_vars,
                   fn_vars>>

\* A lock that grants the write guard while read guards are held.
AcquireWriteAmongReaders ==
    /\ bg_pc = "write_lock"
    /\ ~lock_writer
    /\ lock_writer' = TRUE
    /\ bg_pc' = "assign"
    /\ UNCHANGED <<state, ver, lock_readers, files, bg_cat, bg_idx, all_entries,
                   deduped, bg_local, cycle, got, handed,
                   rd_vars, fn_vars>>

\* state.write(): granted when no guard is held.
AcquireWrite ==
    /\ bg_pc = "write_lock"
    /\ lock_readers = {}
    /\ ~lock_writer
    /\ lock_writer' = TRUE
    /\ bg_pc' = "assign"
    /\ UNCHANGED <<state, ver, lock_readers, files, bg_cat, bg_idx, all_entries,
                   deduped, bg_local, cycle, got, handed,
                   rd_vars, fn_vars>>

\* *state = FeedState { main, noisy }
AssignState ==
    /\ bg_pc = "assign"
    /\ state' = [main |-> bg_local.main, noisy |-> bg_local.noisy]
    /\ ver' = [main |-> cycle, noisy |-> cycle]
    /\ bg_pc' = "unlock"
    /\ UNCHANGED <<lock_readers, lock_writer, files, bg_cat, bg_idx, all_entries,
                   deduped, bg_local, cycle, got, handed,
                   rd_vars, fn_vars>>

\* refresh_all returns: the write guard is dropped; the loop computes the
\* wait and sleeps.
ReleaseWrite ==
    /\ bg_pc = "unlock"
    /\ lock_writer' = FALSE
    /\ bg_pc' = "sleep"
    /\ UNCHANGED <<state, ver, lock_readers, files, bg_cat, bg_idx, all_entries,
                   deduped, bg_local, cycle, got, handed,
                   rd_vars, fn_vars>>

(***************************************************************************)
(* The HTTP server: handle_connection                                      *)
(***************************************************************************)

\* A client connects.
Connect ==
    /\ pending < MaxPending
    /\ pending' = pending + 1
    /\ UNCHANGED <<state, ver, lock_readers, lock_writer, files, bg_vars, rd_pc, rd_seen,
                   fn_vars>>

\* listener.incoming() yields Ok(stream): handle_connection is called.
Accept(h) ==
    /\ rd_pc[h] = "accept"
    /\ pending > 0
    /\ pending' = pending - 1
    /\ rd_pc' = [rd_pc EXCEPT ![h] = "read_request"]
    /\ UNCHANGED <<state, ver, lock_readers, lock_writer, files, bg_vars, rd_seen,
                   fn_vars>>

\* listener.incoming() yields Err(e): it is logged and the loop goes on.
AcceptError(h) ==
    /\ rd_pc[h] = "accept"
    /\ pending > 0
    /\ pending' = pending - 1
    /\ UNCHANGED <<state, ver, lock_readers, lock_writer, files, bg_vars, rd_pc, rd_seen,
                   fn_vars>>

\* stream.read(&mut buf), whose result is dropped.
ReadRequest(h) ==
    /\ rd_pc[h] = "read_request"
    /\ rd_pc' = [rd_pc EXCEPT ![h] = "read_lock"]
    /\ UNCHANGED <<state, ver, lock_readers, lock_writer, files, bg_vars, rd_seen, pending,
                   fn_vars>>

\* state.read(): granted when the write guard is not held.
AcquireRead(h) ==
    /\ rd_pc[h] = "read_lock"
    /\ ~lock_writer
    /\ lock_readers' = lock_readers \cup {h}
    /\ rd_pc' = [rd_pc EXCEPT ![h] = "render_main"]
    /\ UNCHANGED <<state, ver, lock_writer, files, bg_vars, rd_seen, pending, fn_vars>>

\* render_page reads feed_state.main ...
RenderMain(h) ==
    /\ rd_pc[h] = "render_main"
    /\ rd_seen' = [rd_seen EXCEPT ![h].main = Some(state.main), ![h].vmain = ver.main]
    /\ rd_pc' = [rd_pc EXCEPT ![h] = "render_noisy"]
    /\ UNCHANGED <<state, ver, lock_readers, lock_writer, files, bg_vars, pending,
                   fn_vars>>

\* ... and feed_state.noisy.
RenderNoisy(h) ==
    /\ rd_pc[h] = "render_noisy"
    /\ rd_seen' = [rd_seen EXCEPT ![h].noisy = Some(state.noisy), ![h].vnoisy = ver.noisy]
    /\ rd_pc' = [rd_pc EXCEPT ![h] = "write_response"]
    /\ UNCHANGED <<state, ver, lock_readers, lock_writer, files, bg_vars, pending,
                   fn_vars>>

\* stream.write_all(response) returns, the client having taken the bytes or
\* the connection having failed; the result is dropped.
WriteResponse(h) ==
    /\ rd_pc[h] = "write_response"
    /\ rd_pc' = [rd_pc EXCEPT ![h] = "return"]
    /\ UNCHANGED <<state, ver, lock_readers, lock_writer, files, bg_vars, rd_seen, pending,
                   fn_vars>>

\* handle_connection returns: the read guard feed_state is dropped.
ReleaseRead(h) ==
    /\ rd_pc[h] = "return"
    /\ lock_readers' = lock_readers \ {h}
    /\ rd_pc' = [rd_pc EXCEPT ![h] = "accept"]
    /\ rd_seen' = [rd_seen EXCEPT ![h] = NotSeen]
    /\ UNCHANGED <<state, ver, lock_writer, files, bg_vars, pending, fn_vars>>

(***************************************************************************)
(* The process is stopped and started again                                *)
(***************************************************************************)

\* The process ends, by a signal or with its machine, and main() runs again:
\* the collections are loaded from the data files as they are.
Restart ==
    /\ state' = [main |-> load_entries(files.main), noisy |-> load_entries(files.noisy)]
    /\ ver' = [main |-> 0, noisy |-> 0]
    /\ lock_readers' = {}
    /\ lock_writer' = FALSE
    /\ bg_pc' = "spawned"
    /\ bg_cat' = "main"
    /\ bg_idx' = 1
    /\ all_entries' = <<>>
    /\ deduped' = <<>>
    /\ bg_local' = [main |-> <<>>, noisy |-> <<>>]
    /\ cycle' = 0
    /\ got' = NothingGot
    /\ handed' = NothingHanded
    /\ rd_pc' = [h \in Handlers |-> "accept"]
    /\ rd_seen' = [h \in Handlers |-> NotSeen]
    /\ pending' = 0
    /\ UNCHANGED <<files, fn_vars>>

(***************************************************************************)
(* Functions under study                                                   *)
(***************************************************************************)

\* The most entries fetched before a dedup under study.
MaxEntries == 3

SampleEntry(id, title, published) ==
    [id |-> id, title |-> title, link |-> <<>>, published |-> published,
     feed_title |-> <<"A">>, summary |-> None]

SampleEntries ==
    { SampleEntry(id, title, published) :
        id \in {<<"a">>, <<"b">>, <<"c">>}, title \in {<<"1">>, <<"2">>},
        published \in {None, Some(1), Some(2)} }

SeqsUpTo(S, n) == UNION { [1..k -> S] : k \in 0..n }

\* Two items, each with the URL of the feed it is in.
ItemUrls == { <<"u">>, <<"u","#","x">>, <<"v">> }

ItemRaws ==
    { Raw(id, <<>>, link, None, None) :
        id \in {<<>>, <<"g">>, <<"x","#","g">>}, link \in {<<>>, <<"g">>, <<"k">>} }

Items == [url : ItemUrls, raw : ItemRaws]

\* fetch_feed on each of the two items in its feed, and the dedup of
\* fetch_and_save on what they give.
MergeItems ==
    /\ arg # None
    /\ res = None
    /\ \E r1 \in {fetch_feed(arg[1][1].url, Fetched(<<>>, <<arg[1][1].raw>>))},
          r2 \in {fetch_feed(arg[1][2].url, Fetched(<<>>, <<arg[1][2].raw>>))} :
          res' = Some([entries |-> r1.val \o r2.val,
                       deduped |-> Dedup(r1.val \o r2.val, {})])
    /\ UNCHANGED <<state, ver, lock_readers, lock_writer, files, bg_vars, rd_vars, arg,
                   xml_vars>>

(***************************************************************************)
(* Specifications                                                          *)
(***************************************************************************)

Fetcher(R) ==
    \/ ColdStart
    \/ WakeUp
    \/ FetchFeed(R)
    \/ FetchDone
    \/ DedupEntries
    \/ SortEntries
    \/ SaveEntries
    \/ AcquireWrite
    \/ AssignState
    \/ ReleaseWrite

Handler(h) ==
    \/ Accept(h)
    \/ AcceptError(h)
    \/ ReadRequest(h)
    \/ AcquireRead(h)
    \/ RenderMain(h)
    \/ RenderNoisy(h)
    \/ WriteResponse(h)
    \/ ReleaseRead(h)

Server ==
    \/ Connect
    \/ \E h \in Handlers : Handler(h)

\* The two threads of the running program.
Next == Fetcher(Responses) \/ Server

Spec == Init /\ [][Next]_vars

\* The steps of the fetcher that need nothing but the processor.  The grant
\* of the write lock is taken to be fair to the writer.
FetcherFair(R) ==
    /\ WF_vars(ColdStart \/ WakeUp \/ FetchFeed(R) \/ FetchDone \/ DedupEntries
                         \/ SortEntries \/ SaveEntries \/ AssignState \/ ReleaseWrite)
    /\ SF_vars(AcquireWrite)

\* The steps of a handler that need nothing but the processor and the lock.
HandlerFair(h) ==
    WF_vars(Accept(h) \/ AcceptError(h) \/ ReadRequest(h) \/ AcquireRead(h)
                      \/ RenderMain(h) \/ RenderNoisy(h) \/ ReleaseRead(h))

\* The running program with clients that take every response in the end.
LiveSpec ==
    /\ Spec
    /\ FetcherFair(Responses)
    /\ \A h \in Handlers : HandlerFair(h) /\ WF_vars(WriteResponse(h))

\* The documents whose normalisation returns.
PlainResponses == {FetchFailed, DocFeed}

PlainNext == Fetcher(PlainResponses) \/ Server

\* The running program with feeds of plain documents and clients of any
\* kind: write_all returns when the client lets it.
ClientSpec ==
    /\ Init
    /\ [][PlainNext]_vars
    /\ FetcherFair(PlainResponses)
    /\ \A h \in Handlers : HandlerFair(h)

\* What a GET may give in the runs of RestartSpec.
RestartResponses == {FetchFailed, DocTabGuid}

RestartNext == Fetcher(RestartResponses) \/ Restart

\* The program fetching, stopped and started again at any time.
RestartSpec == Init /\ [][RestartNext]_vars

\* The dedup and the sort of fetch_and_save on any entries fetched.
MergeInit ==
    \E entries \in SeqsUpTo(SampleEntries, MaxEntries) :
        InState(NoFiles, "dedup", 1, entries, None)

MergeNext == DedupEntries \/ SortEntries

MergeSpec == MergeInit /\ [][MergeNext]_vars

\* The ids given to any two items.
ItemInit ==
    \E items \in Items \X Items : InState(NoFiles, "spawned", 0, <<>>, Some(items))

ItemNext == MergeItems

ItemSpec == ItemInit /\ [][ItemNext]_vars

(***************************************************************************)
(* Properties of the Shared State Cell                                     *)
(***************************************************************************)

\* The steps of a refresh cycle that precede the write lock.
OffLock == {"fetch", "dedup", "sort", "save"}

\* C1: a reader never sees one category of a cycle beside the other category
\* of another cycle, nor a collection other than a whole one that was
\* installed: the two collections of the cell are always of the same cycle,
\* and what a handler has read of them is what the cell holds, of one cycle,
\* for as long as the handler goes on.
NoTornRead ==
    /\ ver.main = ver.noisy
    /\ \A h \in Handlers :
          /\ rd_seen[h].main # None =>
                /\ rd_seen[h].main = Some(state.main)
                /\ rd_seen[h].vmain = ver.main
          /\ rd_seen[h].noisy # None =>
                /\ rd_seen[h].noisy = Some(state.noisy)
                /\ rd_seen[h].vnoisy = rd_seen[h].vmain

\* A handler has read both collections of cycle 1 and has yet to respond while
\* the fetcher waits for the write lock with other collections of cycle 2.
ReadWhileNextCycleWaits ==
    \E h \in Handlers :
        /\ rd_pc[h] = "write_response"
        /\ rd_seen[h].vmain = 1
        /\ rd_seen[h].vnoisy = 1
        /\ bg_pc = "write_lock"
        /\ cycle = 2
        /\ bg_local.main # state.main

\* C7: the write guard is held only from the grant of the write lock to the
\* end of the assignment of the new FeedState: never while the fetcher
\* fetches, dedups, sorts or saves, and never while it sleeps.
WriteLockOnlyToReplace ==
    lock_writer => bg_pc \in {"assign", "unlock"}

\* The fetcher saves the noisy collection of its second cycle while a handler
\* holds a read guard.
SaveBesideReader ==
    /\ bg_pc = "save"
    /\ bg_cat = "noisy"
    /\ cycle = 2
    /\ lock_readers # {}
    /\ ~lock_writer

RECURSIVE EntriesOfSucceeded(_, _)
EntriesOfSucceeded(feeds, resps) ==
    IF resps = <<>> THEN <<>>
    ELSE (IF Head(resps).failed THEN <<>>
          ELSE FetchResults[Head(feeds), Head(resps)].val)
         \o EntriesOfSucceeded(Tail(feeds), Tail(resps))

\* C5: a failed fetch ends neither the thread nor the loop over the feeds and
\* adds no entry: every feed of the category is fetched, the collection that
\* is saved is the dedup and sort of the entries of the feeds whose fetch
\* succeeded, and that collection is what the cycle installs.
FailureContributesNothing ==
    /\ bg_pc = "panicked" => ~got[bg_cat][Len(got[bg_cat])].failed
    /\ bg_pc \in {"dedup", "sort", "save"} => Len(got[bg_cat]) = Len(Feeds(bg_cat))
    /\ bg_pc = "save" =>
          deduped = SortBy(Dedup(EntriesOfSucceeded(Feeds(bg_cat), got[bg_cat]), {}))
    /\ bg_pc = "unlock" =>
          \A cat \in {"main", "noisy"} :
              state[cat] = SortBy(Dedup(EntriesOfSucceeded(Feeds(cat), got[cat]), {}))

\* A cycle whose first main fetch failed and whose second succeeded has
\* installed the entries of the second.
FailedThenFetched ==
    /\ bg_pc = "unlock"
    /\ got.main = <<FetchFailed, DocFeed>>
    /\ Len(state.main) = 3

\* The entries of a collection have ids that differ pairwise.
DistinctIds(c) ==
    \A i, j \in DOMAIN c : i # j => c[i].id # c[j].id

\* The dated entries of a collection come newest first and before the undated.
NewestFirst(c) ==
    \A i, j \in DOMAIN c :
        i < j /\ c[j].published # None =>
            /\ c[i].published # None
            /\ c[i].published[1] >= c[j].published[1]

\* The index of the first entry of the sequence with the id.
FirstWith(entries, id) ==
    CHOOSE k \in DOMAIN entries :
        /\ entries[k].id = id
        /\ \A m \in 1..(k - 1) : entries[m].id # id

\* C8: the dedup gives one entry for each id of its input and no other, and
\* each is the first entry of that id in the input, field by field.
DedupKeepsFirst ==
    bg_pc \in {"sort", "save"} =>
        /\ DistinctIds(deduped)
        /\ {deduped[i].id : i \in DOMAIN deduped}
               = {all_entries[i].id : i \in DOMAIN all_entries}
        /\ \A i \in DOMAIN deduped :
               deduped[i] = all_entries[FirstWith(all_entries, deduped[i].id)]

\* The dedup has dropped the third of three entries, which had the id of the
\* first and other fields.
DroppedLaterOccurrence ==
    /\ bg_pc = "sort"
    /\ Len(all_entries) = 3
    /\ all_entries[1].id = all_entries[3].id
    /\ all_entries[1] # all_entries[3]
    /\ all_entries[2].id # all_entries[1].id
    /\ deduped = <<all_entries[1], all_entries[2]>>

\* C9: in the collection the sort leaves, of two dated entries the one at
\* the lower index has the timestamp that is greater or equal, and no undated
\* entry comes before a dated one.
SortedNewestFirst ==
    bg_pc = "save" => NewestFirst(deduped)

\* The sort has turned round three entries fetched as undated, older, newer.
SortedThree ==
    /\ bg_pc = "save"
    /\ Len(all_entries) = 3
    /\ all_entries[1].published = None
    /\ all_entries[2].published = Some(1)
    /\ all_entries[3].published = Some(2)
    /\ deduped = <<all_entries[3], all_entries[2], all_entries[1]>>

\* C2: each collection of every FeedState the cell holds, the one loaded at a
\* start and the ones installed, has pairwise distinct ids and is sorted
\* newest first with the undated entries last.
FeedStateWellFormed ==
    \A cat \in {"main", "noisy"} :
        DistinctIds(state[cat]) /\ NewestFirst(state[cat])

\* C10: two items get the same id only if they are in the same feed and have
\* the same key.
SameIdSameItem ==
    res # None =>
        (res[1].entries[1].id = res[1].entries[2].id =>
            /\ arg[1][1].url = arg[1][2].url
            /\ entry_id(arg[1][1].raw) = entry_id(arg[1][2].raw))

(***************************************************************************)
(* Progress of the fetcher                                                 *)
(***************************************************************************)

\* C3: whatever the documents fetched, another refresh cycle begins: the
\* first after the start, and the next after each one.
NextCycleBegins ==
    \A c \in 0..(MaxCycles - 1) : (cycle = c) ~> (cycle = c + 1)

\* C4: a cycle that has begun installs its collections in the end, whatever
\* the clients do.
CycleRunsToCompletion ==
    \A c \in 1..MaxCycles : (cycle = c) ~> (ver.main = c /\ ver.noisy = c)

(***************************************************************************)
(* The persistent store: save, then load                                   *)
(***************************************************************************)

\* The variables of the two threads and of the files.
app_vars == <<state, ver, lock_readers, lock_writer, files, bg_vars, rd_vars>>

sys_vars == <<app_vars, xml_vars>>

\* The most entries of a collection that is saved.
MaxStored == 2

StoreEntry(id, title, published, summary) ==
    [id |-> id, title |-> title, link |-> <<>>, published |-> published,
     feed_title |-> <<"f">>, summary |-> summary]

StoreEntries ==
    { StoreEntry(id, title, published, summary) :
        id \in {<<"a">>, <<"a","\t","b">>},
        title \in {<<"t">>, <<"t","\n","u">>},
        published \in {None, Some(5), Some(0 - 5)},
        summary \in {None, Some(<<"s">>), Some(<<"x","\r","y">>), Some(<<"s","\r">>)} }

\* save_entries on the collection and load_entries on what it wrote.
SaveAndLoad ==
    /\ arg # None
    /\ res = None
    /\ res' = Some(load_entries(Some(SaveText(arg[1]))))
    /\ UNCHANGED <<sys_vars, arg>>

StoreInit ==
    \E c \in SeqsUpTo(StoreEntries, MaxStored) :
        InState(NoFiles, "spawned", 0, <<>>, Some(c))

StoreNext == SaveAndLoad

\* A collection of any entries is saved and loaded.
StoreSpec == StoreInit /\ [][StoreNext]_vars

\* s with a space for each of its characters that is in cs.
Spaced(s, cs) == [i \in 1..Len(s) |-> IF s[i] \in cs THEN " " ELSE s[i]]

EntrySpaced(e, cs) ==
    [id         |-> Spaced(e.id, cs),
     title      |-> Spaced(e.title, cs),
     link       |-> Spaced(e.link, cs),
     published  |-> e.published,
     feed_title |-> Spaced(e.feed_title, cs),
     summary    |-> IF e.summary = None THEN None ELSE Some(Spaced(e.summary[1], cs))]

AllSpaced(c, cs) == [i \in 1..Len(c) |-> EntrySpaced(c[i], cs)]

\* C11: a collection saved and loaded is the collection with a space for each
\* tab and each line break of its fields (the same collection when it has
\* none), entry for entry; the line breaks are the line feed, with or
\* without the carriage return.
RoundTrip ==
    res # None =>
        \/ res[1] = AllSpaced(arg[1], {"\t", "\n"})
        \/ res[1] = AllSpaced(arg[1], {"\t", "\n", "\r"})

(***************************************************************************)
(* The summary of an entry                                                 *)
(***************************************************************************)

\* The longest plain text given as a raw summary.
MaxSummaryLen == 250

\* Raw summaries: plain texts of every length, a plain text of 150 characters
\* of two bytes each, a text in markup, and a text of three lines whose second
\* ends with a carriage return.
SummaryTexts ==
    { Repeat("x", n) : n \in 0..MaxSummaryLen }
        \cup { Repeat(EAcute, 150), <<"<","p",">","H","i"," ","<","b",">","y","o","u","<","/","b",">","<","/","p",">">>,
               <<"a","\n","b","\r","\r","\n","c">> }

\* The summary fetch_feed gives an entry for a raw summary.
ApplySummary ==
    /\ arg # None
    /\ res = None
    /\ res' = Some(Summary(Some(arg[1])))
    /\ UNCHANGED <<sys_vars, arg>>

SummaryInit ==
    \E text \in SummaryTexts : InState(NoFiles, "spawned", 0, <<>>, Some(text))

SummaryNext == ApplySummary

SummarySpec == SummaryInit /\ [][SummaryNext]_vars

IsPlain(text) == \A i \in 1..Len(text) : text[i] \in {"x", EAcute}

\* C14: a summary has at most 200 characters; a plain text of more than 200
\* characters gives 200 characters that end with the ellipsis, and a plain
\* text of 200 characters or fewer is kept as it is.
SummaryAtMost200 ==
    res # None /\ ~res[1].panic /\ res[1].val # None =>
        LET out == res[1].val[1]
        IN  /\ Len(out) <= 200
            /\ IsPlain(arg[1]) /\ Len(arg[1]) > 200 =>
                  /\ Len(out) = 200
                  /\ SubSeq(out, Len(out) - 2, Len(out)) = Ellipsis
            /\ IsPlain(arg[1]) /\ Len(arg[1]) <= 200 => out = arg[1]

(***************************************************************************)
(* The timestamp of an entry                                               *)
(***************************************************************************)

TwoDigits(n) == <<Digits[(n \div 10) + 1], Digits[(n % 10) + 1]>>

\* The months of the dates given, with their names and the days of 2024
\* before their first day.
SampleMonths ==
    { [number |-> 1,  name |-> <<"J","a","n">>, before |-> 0],
      [number |-> 2,  name |-> <<"F","e","b">>, before |-> 31],
      [number |-> 12, name |-> <<"D","E","C">>, before |-> 335] }

SampleDays == {1, 15}

\* Zone suffixes in the two grammars, each with its offset in seconds.
Zones2822 ==
    { [text |-> <<" ","+","0","2","0","0">>, offset |-> 7200],
      [text |-> <<" ","G","M","T">>,         offset |-> 0],
      [text |-> <<" ","E","S","T">>,         offset |-> 0 - 18000],
      [text |-> <<" ","-","0","5","3","0">>, offset |-> 0 - 19800],
      [text |-> <<>>,                        offset |-> 0] }

Zones3339 ==
    { [text |-> <<"Z">>,                         offset |-> 0],
      [text |-> <<"+","0","2",":","0","0">>,     offset |-> 7200],
      [text |-> <<"-","0","5",":","3","0">>,     offset |-> 0 - 19800],
      [text |-> <<>>,                            offset |-> 0] }

ClockText == <<"1","0",":","3","0",":","0","0">>

\* A date text with the month, the day and the zone offset it is written for.
Dated(raw, month, day, offset) ==
    [raw |-> raw, date |-> Some(<<month.before, day>>), offset |-> offset]

Dates2822 ==
    { Dated(dayname \o TwoDigits(day) \o <<" ">> \o month.name
                \o <<" ","2","0","2","4"," ">> \o ClockText \o zone.text,
            month, day, zone.offset) :
        dayname \in {<<>>, <<"M","o","n",","," ">>},
        day \in SampleDays, month \in SampleMonths, zone \in Zones2822 }

Dates3339 ==
    { Dated(<<"2","0","2","4","-">> \o TwoDigits(month.number) \o <<"-">>
                \o TwoDigits(day) \o <<"T">> \o ClockText \o zone.text,
            month, day, zone.offset) :
        day \in SampleDays, month \in SampleMonths, zone \in Zones3339 }

\* Texts of neither grammar, and texts with a character of two bytes where
\* the parsers slice.
Undated(raw) == [raw |-> raw, date |-> None, offset |-> 0]

OtherTexts ==
    { Undated(<<>>),
      Undated(<<"s","o","o","n">>),
      Undated(<<"2","0","2","4","-","0","1","-","1","5">>),
      Undated(<<"1","5"," ","J","a","n"," ","2","0","2","4">>),
      Undated(<<"1","5"," ","F","o","o"," ","2","0","2","4"," ">> \o ClockText),
      Undated(<<"2","0","2","4","-","0","1","-","1","5","T","1","0",":","3","0",":","x","x">>),
      Undated(<<"2","0","2","4","-","0","1","-","1","5","T","1","0",":","3","0",":","0",EAcute>>),
      Undated(<<"2","0","2","4","-","0","1","-","1","5","T">> \o ClockText
                  \o <<"+","0",EAcute,":","0","0">>),
      Undated(<<"1","5"," ","J","a","n"," ","2","0","2","4"," ">> \o ClockText
                  \o <<" ","+","0",EAcute,"0","0">>) }

PublishedTexts == Dates2822 \cup Dates3339 \cup OtherTexts

\* parse_timestamp on the text, and fetch_feed on a feed whose one item has
\* the text as its date.
ParsePublished ==
    /\ arg # None
    /\ res = None
    /\ res' = Some([instant |-> parse_timestamp(arg[1].raw),
                    entries |-> fetch_feed(UrlA,
                                    Fetched(<<"A">>,
                                            <<Raw(<<"g">>, <<"t">>, <<"l">>,
                                                  Some(arg[1].raw), None)>>))])
    /\ UNCHANGED <<sys_vars, arg>>

PublishedInit ==
    \E text \in PublishedTexts : InState(NoFiles, "spawned", 0, <<>>, Some(text))

PublishedNext == ParsePublished

PublishedSpec == PublishedInit /\ [][PublishedNext]_vars

\* The seconds from the epoch to 10:30:00 UTC of the day of 2024 that comes
\* after the given number of days of the year; 1 January 2024 is day 19723.
ClockOfDay(date) == (19723 + date[1] + date[2] - 1) * 86400 + 10 * 3600 + 30 * 60

Text3339Z == <<"2","0","2","4","-","0","1","-","1","5","T">> \o ClockText \o <<"Z">>

Text2822Plus2 ==
    <<"M","o","n",","," ","1","5"," ","J","a","n"," ","2","0","2","4"," ">>
        \o ClockText \o <<" ","+","0","2","0","0">>

Text2822GMT ==
    <<"1","5"," ","J","a","n"," ","2","0","2","4"," ">> \o ClockText \o <<" ","G","M","T">>

\* C15, as the code has it: the instant of a date text is its clock value as
\* UTC less the offset of its zone; "2024-01-15T10:30:00Z" gives 1705314600,
\* "Mon, 15 Jan 2024 10:30:00 +0200" gives 1705307400 and
\* "15 Jan 2024 10:30:00 GMT" gives 1705314600.
InstantIsClockLessOffset ==
    res # None =>
        /\ arg[1].date # None =>
              res[1].instant = Returned(Some(ClockOfDay(arg[1].date[1]) - arg[1].offset))
        /\ arg[1].raw = Text3339Z => res[1].instant = Returned(Some(1705314600))
        /\ arg[1].raw = Text2822Plus2 => res[1].instant = Returned(Some(1705307400))
        /\ arg[1].raw = Text2822GMT => res[1].instant = Returned(Some(1705314600))

\* The text of 10:30 at two hours east of Greenwich has been parsed to 08:30
\* UTC.
ParsedPlus2 ==
    /\ res # None
    /\ arg[1].raw = Text2822Plus2
    /\ arg[1].offset = 7200
    /\ res[1].instant = Returned(Some(1705314600 - 7200))

\* C15, as it is stated: "Mon, 15 Jan 2024 10:30:00 +0200" gives 1705306200.
InstantsAsStated ==
    res # None =>
        /\ arg[1].raw = Text3339Z => res[1].instant = Returned(Some(1705314600))
        /\ arg[1].raw = Text2822Plus2 => res[1].instant = Returned(Some(1705306200))
        /\ arg[1].raw = Text2822GMT => res[1].instant = Returned(Some(1705314600))

\* C16: parse_timestamp returns, with an instant or with none, for every
\* text, and the item whose date it is becomes an Entry all the same, without
\* published when there is no instant.
TimestampNeverFaults ==
    res # None =>
        /\ ~res[1].instant.panic
        /\ ~res[1].entries.panic
        /\ Len(res[1].entries.val) = 1
        /\ res[1].entries.val[1].published = res[1].instant.val

(***************************************************************************)
(* The persistent store: load                                              *)
(***************************************************************************)

\* The most lines of a data file that is loaded.
MaxLines == 2

\* Texts of a published field, each with the integer it is, if it is one.
PublishedFields ==
    { [text |-> <<>>,               value |-> None],
      [text |-> <<"1","2">>,        value |-> Some(12)],
      [text |-> <<"-","3">>,        value |-> Some(0 - 3)],
      [text |-> <<"+","7">>,        value |-> Some(7)],
      [text |-> <<"a","b","c">>,    value |-> None],
      [text |-> <<"1",".","5">>,    value |-> None],
      [text |-> <<" ","1">>,        value |-> None],
      [text |-> I64MinDigits,       value |-> None] }

\* A line as its fields, with the value of its published field.
FileLine(fields, value) == [fields |-> fields, value |-> value]

FileLines ==
    { FileLine(<<<<"i">>, <<"t">>, <<"l">>, p.text, <<"f">>>> \o rest, p.value) :
        p \in PublishedFields,
        rest \in {<< <<>> >>, << <<"s">> >>, << <<"s">>, <<"m">> >>} }
    \cup { FileLine(<<>>, None),
           FileLine(<<<<"i">>, <<"t">>, <<"l">>>>, None),
           FileLine(<<<<"i">>, <<"t">>, <<"l">>, <<"5">>, <<"f">>>>, None) }

LineFeed == <<"\n">>

\* A data file: missing, or lines with one line ending, the last line with
\* or without it.
DataFiles ==
    { [missing |-> TRUE, lines |-> <<>>, eol |-> LineFeed, final |-> TRUE] }
    \cup [missing : {FALSE}, lines : SeqsUpTo(FileLines, MaxLines),
          eol : {LineFeed, <<"\r","\n">>}, final : BOOLEAN]

FileText(f) ==
    Join([i \in 1..Len(f.lines) |-> Join(f.lines[i].fields, <<"\t">>)], f.eol)
        \o (IF f.final /\ f.lines # <<>> THEN f.eol ELSE <<>>)

\* load_entries on the data file.
LoadFile ==
    /\ arg # None
    /\ res = None
    /\ res' = Some(load_entries(IF arg[1].missing THEN None ELSE Some(FileText(arg[1]))))
    /\ UNCHANGED <<sys_vars, arg>>

LoadInit ==
    \E f \in DataFiles : InState(NoFiles, "spawned", 0, <<>>, Some(f))

LoadNext == LoadFile

LoadSpec == LoadInit /\ [][LoadNext]_vars

\* The Entry of a line of six fields or more.
EntryOfLine(l) ==
    [id         |-> l.fields[1],
     title      |-> l.fields[2],
     link       |-> l.fields[3],
     published  |-> l.value,
     feed_title |-> l.fields[5],
     summary    |-> IF Len(l.fields) = 6 /\ l.fields[6] = <<>> THEN None
                    ELSE Some(Join(SubSeq(l.fields, 6, Len(l.fields)), <<"\t">>))]

RECURSIVE EntriesOfLines(_)
EntriesOfLines(ls) ==
    IF ls = <<>> THEN <<>>
    ELSE (IF Len(Head(ls).fields) < 6 THEN <<>> ELSE <<EntryOfLine(Head(ls))>>)
         \o EntriesOfLines(Tail(ls))

\* C17: the load of a missing file gives no entry; the load of a file gives,
\* in the order of its lines, one Entry for each line of six fields and
\* nothing for a line of fewer, and the Entry of a line whose published field
\* is no integer has no published.
LoadNeverFails ==
    res # None =>
        res[1] = (IF arg[1].missing THEN <<>> ELSE EntriesOfLines(arg[1].lines))

\* A line of three fields has been skipped and the line after it, whose
\* published field is "abc", has given an Entry without published.
LoadedPastBadLine ==
    /\ res # None
    /\ ~arg[1].missing
    /\ Len(arg[1].lines) = 2
    /\ Len(arg[1].lines[1].fields) = 3
    /\ Len(arg[1].lines[2].fields) = 6
    /\ arg[1].lines[2].fields[4] = <<"a","b","c">>
    /\ Len(res[1]) = 1
    /\ res[1][1].published = None
    /\ res[1][1].id = <<"i">>

(***************************************************************************)
(* The wait of the fetcher                                                 *)
(***************************************************************************)

\* str::parse::<u64>, for values that are i64 as well: no "-" sign.
ParseU64(s) == IF s # <<>> /\ Head(s) = "-" THEN None ELSE ParseI64(s)

\* utc_fetch_hour, the variable UTC_FETCH_HOUR being unset (None) or set.
utc_fetch_hour(env) ==
    IF env = None \/ ParseU64(env[1]) = None THEN 14 ELSE ParseU64(env[1])[1]

\* A secs_until_fetch that forgets the target hour when the wait goes over
\* midnight.
secs_until_midnight(now, hour) ==
    LET today_secs == now % 86400
        target     == hour * 3600
    IN  IF today_secs < target THEN target - today_secs ELSE 86400 - today_secs

\* secs_until_fetch, now being the seconds since the epoch and hour what
\* utc_fetch_hour returns.
secs_until_fetch(now, hour) ==
    LET today_secs == now % 86400
        target     == hour * 3600
    IN  IF today_secs < target THEN target - today_secs
        ELSE 86400 - today_secs + target

\* The times of day at an hour, a second or half an hour from it.
ClockTimes ==
    { t \in { k * 3600 + d : k \in 0..24, d \in {0 - 1, 0, 1, 1800} } :
        0 <= t /\ t < 86400 }

\* The trigger hour as set in the environment and the time now, on
\* 1 January 1970 or on 1 January 2024.
WaitInputs ==
    { [env |-> Some(I64ToString(h)), hour |-> h, now |-> day * 86400 + t] :
        h \in 0..23, t \in ClockTimes, day \in {0, 19723} }

ComputeWait ==
    /\ arg # None
    /\ res = None
    /\ res' = Some(secs_until_fetch(arg[1].now, utc_fetch_hour(arg[1].env)))
    /\ UNCHANGED <<sys_vars, arg>>

WaitInit ==
    \E i \in WaitInputs : InState(NoFiles, "spawned", 0, <<>>, Some(i))

WaitNext == ComputeWait

WaitSpec == WaitInit /\ [][WaitNext]_vars

\* C18: the wait ends at the trigger hour, (t + wait) mod 86400 = h * 3600 for
\* the time of day t, and it is the first such wait: more than nothing and
\* at most one day.
WaitReachesHour ==
    res # None =>
        LET t == arg[1].now % 86400
        IN  /\ (t + res[1]) % 86400 = arg[1].hour * 3600
            /\ 0 < res[1]
            /\ res[1] <= 86400

\* At 15:00:01 the wait for hour 14 is the 23 hours less a second to 14:00 of
\* the next day.
WaitedOvernight ==
    /\ res # None
    /\ arg[1].hour = 14
    /\ arg[1].now % 86400 = 15 * 3600 + 1
    /\ res[1] = 23 * 3600 - 1

(***************************************************************************)
(* parse_feed                                                              *)
(***************************************************************************)

\* The most events read from one document.
MaxEvents == 6

Item == <<"i", "t", "e", "m">>
Entry == <<"e", "n", "t", "r", "y">>
Title == <<"t", "i", "t", "l", "e">>
Link == <<"l", "i", "n", "k">>
Href == <<"h", "r", "e", "f">>
Guid == <<"g", "u", "i", "d">>
PubDate == <<"p", "u", "b", "D", "a", "t", "e">>
Description == <<"d", "e", "s", "c", "r", "i", "p", "t", "i", "o", "n">>

\* The tags of the match on current_tag in the Text and CData arms.
IdTags == {<<"i", "d">>, Guid}

DateTags == {<<"p", "u", "b", "l", "i", "s", "h", "e", "d">>, PubDate, <<"u", "p", "d", "a", "t", "e", "d">>, <<"d", "a", "t", "e">>}

SummaryTags == {<<"s", "u", "m", "m", "a", "r", "y">>, Description, <<"c", "o", "n", "t", "e", "n", "t">>, <<"e", "n", "c", "o", "d", "e", "d">>}

ItemTags == {Item, Entry}

\* local_name: the name after its first colon.
local_name(name) ==
    IF \E i \in 1..Len(name) : name[i] = ":"
    THEN SubSeq(name, (CHOOSE i \in 1..Len(name) :
                          name[i] = ":" /\ \A j \in 1..(i - 1) : name[j] # ":") + 1,
                Len(name))
    ELSE name

\* attr_value over the attributes of a start tag, a sequence of [key, value].
attr_value(attrs, attr_name) ==
    IF \E i \in 1..Len(attrs) : attrs[i].key = attr_name
    THEN Some(attrs[CHOOSE i \in 1..Len(attrs) :
                      attrs[i].key = attr_name
                      /\ \A j \in 1..(i - 1) : attrs[j].key # attr_name].value)
    ELSE None

\* The references BytesText::unescape replaces.
XmlEntities ==
    << << <<"&", "l", "t", ";">>, <<"<">> >>,
       << <<"&", "g", "t", ";">>, <<">">> >>,
       << <<"&", "a", "p", "o", "s", ";">>, <<"'">> >>,
       << <<"&", "q", "u", "o", "t", ";">>, <<"\"">> >>,
       << <<"&", "a", "m", "p", ";">>, <<"&">> >> >>

\* The same references, taken out.
XmlEntitiesOut == [i \in 1..Len(XmlEntities) |-> <<XmlEntities[i][1], <<>>>>]

\* e.unescape().map(|s| s.to_string()).unwrap_or_default(): an ampersand that
\* starts none of the references is an error, and the text is then empty.
UnescapeOrDefault(raw) ==
    IF \E i \in 1..Len(ReplaceEach(raw, XmlEntitiesOut)) :
          ReplaceEach(raw, XmlEntitiesOut)[i] = "&"
    THEN <<>>
    ELSE ReplaceEach(raw, XmlEntities)

\* The arm of Event::Start.
Start(p, name, attrs) ==
    LET local == local_name(name)
    IN  IF ~p.in_entry
        THEN IF local \in ItemTags
             THEN [p EXCEPT !.depth = @ + 1, !.in_entry = TRUE,
                            !.entry_id = <<>>, !.entry_title = <<>>,
                            !.entry_link = <<>>, !.entry_published = None,
                            !.entry_summary = None]
             ELSE IF local = Title /\ p.depth + 1 <= 3
                  THEN [p EXCEPT !.depth = @ + 1, !.in_feed_title = TRUE,
                                 !.current_tag = Title]
                  ELSE [p EXCEPT !.depth = @ + 1]
        ELSE [p EXCEPT !.depth = @ + 1, !.current_tag = local,
                       !.entry_link =
                           IF local = Link /\ attr_value(attrs, Href) # None /\ @ = <<>>
                           THEN attr_value(attrs, Href)[1] ELSE @]

\* The arm of Event::Empty.
Empty(p, name, attrs) ==
    IF /\ p.in_entry
       /\ local_name(name) = Link
       /\ attr_value(attrs, Href) # None
       /\ p.entry_link = <<>>
    THEN [p EXCEPT !.entry_link = attr_value(attrs, Href)[1]]
    ELSE p

\* The arm of Event::Text, raw being the text as it is in the document.
Text(p, raw) ==
    LET text == UnescapeOrDefault(raw)
    IN  IF p.in_feed_title /\ ~p.in_entry
        THEN [p EXCEPT !.feed_title = text, !.in_feed_title = FALSE]
        ELSE IF p.in_entry
             THEN CASE p.current_tag = Title -> [p EXCEPT !.entry_title = text]
                    [] p.current_tag = Link ->
                         [p EXCEPT !.entry_link = IF @ = <<>> THEN text ELSE @]
                    [] p.current_tag \in IdTags -> [p EXCEPT !.entry_id = text]
                    [] p.current_tag \in DateTags ->
                         [p EXCEPT !.entry_published = IF @ = None THEN Some(text) ELSE @]
                    [] p.current_tag \in SummaryTags ->
                         [p EXCEPT !.entry_summary = IF @ = None THEN Some(text) ELSE @]
                    [] OTHER -> p
             ELSE p

\* The arm of Event::CData.
CData(p, text) ==
    IF p.in_entry
    THEN CASE p.current_tag \in SummaryTags ->
                [p EXCEPT !.entry_summary = IF @ = None THEN Some(text) ELSE @]
           [] p.current_tag = Title -> [p EXCEPT !.entry_title = text]
           [] OTHER -> p
    ELSE p

\* The RawEntry pushed at the end of an entry.
RawEntry(p) ==
    Raw(p.entry_id, p.entry_title, p.entry_link, p.entry_published, p.entry_summary)

\* The arm of Event::End.
End(p, name) ==
    LET local == local_name(name)
        q == [p EXCEPT !.depth = @ - 1,
                       !.in_feed_title = IF local = Title THEN FALSE ELSE @,
                       !.current_tag = <<>>]
    IN  IF p.in_entry /\ local \in ItemTags
        THEN [q EXCEPT !.in_entry = FALSE, !.entries = Append(@, RawEntry(p))]
        ELSE q

\* The break of the loop and the return of (feed_title, entries).
Return(p) ==
    [p EXCEPT !.result = Some([feed_title |-> p.feed_title, entries |-> p.entries])]

\* The names of the elements of the documents read. Outside an item or entry
\* every name but these two and title is read alike.
ElementNames == {Item, <<"a", ":", "e", "n", "t", "r", "y">>, Title, Link, Guid, PubDate, Description}

\* The names of the empty elements read: the arm of Event::Empty reads every
\* other name as it reads the last.
EmptyNames == {Item, Title, Link, Guid}

\* The attributes of a start tag: none, or an href.
Attributes(name) ==
    IF local_name(name) = Link
    THEN {<<>>, <<[key |-> Href, value |-> <<"h">>]>>}
    ELSE {<<>>}

\* The texts of the documents read; the last is not a reference.
Texts == {<<"a">>, <<"&", "l", "t", ";">>, <<"&">>}

CDataTexts == {<<"c">>}

\* The event read, as the history keeps it.
Event(kind, name, attrs, text) ==
    [kind |-> kind, name |-> name, attrs |-> attrs, text |-> text]

\* An item or entry element is open.
ItemOpen(open) == \E i \in 1..Len(open) : local_name(open[i]) \in ItemTags

AttrValues(attrs) == { attrs[i].value : i \in 1..Len(attrs) }

\* A start tag of this name would open the first feed title element.
OpensFirstTitle(r, name) ==
    /\ local_name(name) = Title
    /\ r.first_title = None
    /\ r.title_at = 0
    /\ Len(r.open) + 1 <= 3
    /\ ~ItemOpen(r.open)

Reading ==
    /\ parser.result = None
    /\ reader.n < MaxEvents

ReadStart ==
    /\ Reading
    /\ \E name \in ElementNames : \E attrs \in Attributes(name) :
          /\ parser' = Start(parser, name, attrs)
          /\ reader' =
               [reader EXCEPT
                  !.n = @ + 1,
                  !.last = Some(Event("Start", name, attrs, <<>>)),
                  !.open = Append(@, name),
                  !.flat = @ /\ ~(local_name(name) \in ItemTags /\ ItemOpen(reader.open)),
                  !.content = IF ItemOpen(reader.open) THEN @ \cup AttrValues(attrs)
                              ELSE IF local_name(name) \in ItemTags THEN {} ELSE @,
                  !.title_at = IF OpensFirstTitle(reader, name)
                               THEN Len(reader.open) + 1 ELSE @]
    /\ UNCHANGED <<app_vars, arg, res>>

ReadEmpty ==
    /\ Reading
    /\ \E name \in EmptyNames : \E attrs \in Attributes(name) :
          /\ parser' = Empty(parser, name, attrs)
          /\ reader' =
               [reader EXCEPT
                  !.n = @ + 1,
                  !.last = Some(Event("Empty", name, attrs, <<>>)),
                  !.elements = IF local_name(name) \in ItemTags THEN @ + 1 ELSE @,
                  !.flat = @ /\ local_name(name) \notin ItemTags,
                  !.inside = IF local_name(name) \in ItemTags /\ ~ItemOpen(reader.open)
                             THEN Append(@, {}) ELSE @,
                  !.content = IF ItemOpen(reader.open) THEN @ \cup AttrValues(attrs)
                              ELSE @,
                  !.first_title = IF OpensFirstTitle(reader, name) THEN Some(<<>>)
                                  ELSE @]
    /\ UNCHANGED <<app_vars, arg, res>>

\* What a text event adds to the history.
WithText(r, kind, text) ==
    [r EXCEPT !.n = @ + 1,
              !.last = Some(Event(kind, <<>>, <<>>, text)),
              !.content = IF ItemOpen(r.open) THEN @ \cup {text} ELSE @,
              !.title_text = IF r.title_at > 0 /\ @ = None THEN Some(text) ELSE @]

\* With trim_text(true) no text event is empty or starts or ends with a
\* space, and the reader gives the text up to the next markup as one event.
ReadText ==
    /\ Reading
    /\ ~(reader.last # None /\ reader.last[1].kind = "Text")
    /\ \E raw \in Texts :
          /\ parser' = Text(parser, raw)
          /\ reader' = WithText(reader, "Text", UnescapeOrDefault(raw))
    /\ UNCHANGED <<app_vars, arg, res>>

ReadCData ==
    /\ Reading
    /\ \E text \in CDataTexts :
          /\ parser' = CData(parser, text)
          /\ reader' = WithText(reader, "CData", text)
    /\ UNCHANGED <<app_vars, arg, res>>

\* The reader checks the name of an end tag against the element open: any
\* other end tag is an Err.
ReadEnd ==
    /\ Reading
    /\ reader.open # <<>>
    /\ LET name == reader.open[Len(reader.open)]
           rest == SubSeq(reader.open, 1, Len(reader.open) - 1)
           ends == local_name(name) \in ItemTags /\ ~ItemOpen(rest)
           titled == reader.title_at = Len(reader.open)
       IN  /\ parser' = End(parser, name)
           /\ reader' =
                [reader EXCEPT
                   !.n = @ + 1,
                   !.last = Some(Event("End", name, <<>>, <<>>)),
                   !.open = rest,
                   !.elements = IF local_name(name) \in ItemTags THEN @ + 1 ELSE @,
                   !.ended = IF local_name(name) \in ItemTags THEN @ + 1 ELSE @,
                   !.inside = IF ends THEN Append(@, reader.content) ELSE @,
                   !.content = IF ends THEN {} ELSE @,
                   !.first_title =
                       IF titled
                       THEN IF reader.title_text = None THEN Some(<<>>)
                            ELSE reader.title_text
                       ELSE @,
                   !.title_at = IF titled THEN 0 ELSE @,
                   !.title_text = IF titled THEN None ELSE @]
    /\ UNCHANGED <<app_vars, arg, res>>

\* A comment, a declaration, a processing instruction or a DOCTYPE: the arm
\* that does nothing.
ReadOther ==
    /\ Reading
    /\ reader' = [reader EXCEPT !.n = @ + 1, !.last = Some(Event("Other", <<>>, <<>>, <<>>))]
    /\ UNCHANGED <<app_vars, arg, res, parser>>

\* The end of the bytes, wherever the document is.
Eof ==
    /\ parser.result = None
    /\ parser' = Return(parser)
    /\ reader' = [reader EXCEPT !.stopped = "eof"]
    /\ UNCHANGED <<app_vars, arg, res>>

\* The reader fails on what comes next: the error is printed and the loop
\* ends.
Err ==
    /\ parser.result = None
    /\ parser' = Return(parser)
    /\ reader' = [reader EXCEPT !.stopped = "err"]
    /\ UNCHANGED <<app_vars, arg, res>>

ParseInit == Started(NoFiles)

ParseNext ==
    \/ ReadStart
    \/ ReadEmpty
    \/ ReadText
    \/ ReadCData
    \/ ReadEnd
    \/ ReadOther
    \/ Eof
    \/ Err

ParseSpec == ParseInit /\ [][ParseNext]_vars

\* The document was read to its end and every element of it has ended.
WholeDocument ==
    /\ parser.result # None
    /\ reader.stopped = "eof"
    /\ reader.open = <<>>

\* The reader failed, or the bytes ended inside an element.
Faulted ==
    /\ parser.result # None
    /\ reader.stopped = "err" \/ reader.open # <<>>

\* Every field of the raw entry is empty or one of the texts.
FromItem(raw, texts) ==
    /\ raw.id = <<>> \/ raw.id \in texts
    /\ raw.title = <<>> \/ raw.title \in texts
    /\ raw.link = <<>> \/ raw.link \in texts
    /\ raw.published = None \/ raw.published[1] \in texts
    /\ raw.summary = None \/ raw.summary[1] \in texts

\* The i-th raw entry is made of the i-th item/entry element, for each i.
InDocumentOrder(entries) ==
    \A i \in 1..Len(entries) :
        i <= Len(reader.inside) => FromItem(entries[i], reader.inside[i])

\* C12: a whole document of N item/entry elements gives N raw entries, the
\* i-th made of the i-th element.
OneRawItemPerElement ==
    WholeDocument =>
        /\ Len(parser.result[1].entries) = reader.elements
        /\ InDocumentOrder(parser.result[1].entries)

\* What holds of C12: it is so when no item/entry element is empty or inside
\* another.
ItemsInDocumentOrder ==
    WholeDocument /\ reader.flat =>
        /\ Len(parser.result[1].entries) = reader.elements
        /\ Len(reader.inside) = reader.elements
        /\ InDocumentOrder(parser.result[1].entries)

\* Two items one after the other, the first with a link and the second
\* without, give two raw entries in that order.
TwoItemsInOrder ==
    /\ WholeDocument
    /\ reader.flat
    /\ reader.elements = 2
    /\ Len(parser.result[1].entries) = 2
    /\ parser.result[1].entries[1].link = <<"h">>
    /\ parser.result[1].entries[2].link = <<>>

\* C13: after a fault or a truncation the raw entries returned are those of
\* the item/entry elements whose end tag was read, in document order, and
\* nothing more is read.
FaultReturnsEndedItems ==
    Faulted =>
        /\ Len(parser.result[1].entries) = reader.ended
        /\ InDocumentOrder(parser.result[1].entries)
        /\ ~ENABLED ParseNext

\* What holds of C13: it is so when no item/entry element is empty or inside
\* another, and the item being read at the fault is not returned.
FaultKeepsClosedItems ==
    Faulted /\ reader.flat =>
        /\ Len(parser.result[1].entries) = reader.ended
        /\ reader.ended = reader.elements
        /\ InDocumentOrder(parser.result[1].entries)
        /\ ~ENABLED ParseNext

\* The reader fails inside the second item: the first is returned alone.
FaultInSecondItem ==
    /\ Faulted
    /\ reader.stopped = "err"
    /\ reader.flat
    /\ parser.in_entry
    /\ ItemOpen(reader.open)
    /\ reader.ended = 1
    /\ Len(parser.result[1].entries) = 1

\* The event just read is a link element with an href.
ReadLinkWithHref ==
    /\ reader'.last # None
    /\ reader'.n = reader.n + 1
    /\ reader'.last[1].kind \in {"Start", "Empty"}
    /\ local_name(reader'.last[1].name) = Link
    /\ attr_value(reader'.last[1].attrs, Href) # None

\* C19: while parse_feed stays in one item, an id, link, published or
\* summary that is set is not changed by what is read next, and a link
\* element with an href sets the link of an item that has none yet to it.
FirstValueWins ==
    [][parser.in_entry /\ parser'.in_entry =>
          /\ parser.entry_id # <<>> => parser'.entry_id = parser.entry_id
          /\ parser.entry_link # <<>> => parser'.entry_link = parser.entry_link
          /\ parser.entry_published # None =>
                 parser'.entry_published = parser.entry_published
          /\ parser.entry_summary # None =>
                 parser'.entry_summary = parser.entry_summary
          /\ ReadLinkWithHref /\ parser.entry_link = <<>> =>
                 parser'.entry_link = attr_value(reader'.last[1].attrs, Href)[1]]_vars

\* What holds of C19: it is so for the link, the published date and the
\* summary.
FirstLinkDateSummaryWin ==
    [][parser.in_entry /\ parser'.in_entry =>
          /\ parser.entry_link # <<>> => parser'.entry_link = parser.entry_link
          /\ parser.entry_published # None =>
                 parser'.entry_published = parser.entry_published
          /\ parser.entry_summary # None =>
                 parser'.entry_summary = parser.entry_summary
          /\ ReadLinkWithHref /\ parser.entry_link = <<>> =>
                 parser'.entry_link = attr_value(reader'.last[1].attrs, Href)[1]]_vars

\* C20: the feed title is the text of the first title element at depth 3 or
\* less outside every item, once that element has ended, and it is empty
\* until such an element is read.
FeedTitleIsFirstTitle ==
    /\ reader.first_title # None => parser.feed_title = reader.first_title[1]
    /\ reader.first_title = None /\ reader.title_at = 0 => parser.feed_title = <<>>

(***************************************************************************)
(* Properties of the ordering and of the cycle as a whole                  *)
(***************************************************************************)

\* The index of the entry in a collection of distinct entries.
PositionOf(c, e) == CHOOSE k \in DOMAIN c : c[k] = e

\* Neither of the two entries goes before the other.
SameRank(a, b) == ~Before(a, b) /\ ~Before(b, a)

\* The place the i-th of the kept entries must have: behind the entries that
\* go before it and behind those of its rank met earlier.
PlaceOf(kept, i) ==
    1 + Cardinality({ j \in DOMAIN kept : Before(kept[j], kept[i]) })
      + Cardinality({ j \in 1..(i - 1) : SameRank(kept[j], kept[i]) })

\* C21: the sort keeps the encounter order of two kept entries that are both
\* undated, and its output is the one collection that the encounter order
\* determines: each kept entry at the place its timestamp and its encounter
\* index give it.
StableSort ==
    bg_pc = "save" =>
        \E kept \in {Dedup(all_entries, {})} :
            /\ Len(deduped) = Len(kept)
            /\ \A i, j \in DOMAIN kept :
                   (/\ i < j
                    /\ kept[i].published = None
                    /\ kept[j].published = None)
                   => PositionOf(deduped, kept[i]) < PositionOf(deduped, kept[j])
            /\ \A i \in DOMAIN kept : deduped[PlaceOf(kept, i)] = kept[i]

\* Of three entries fetched as undated, dated, undated, the sort has put the
\* dated one first and left the two undated in the order they were met.
UndatedKeepOrder ==
    /\ bg_pc = "save"
    /\ Len(all_entries) = 3
    /\ all_entries[1].published = None
    /\ all_entries[2].published # None
    /\ all_entries[3].published = None
    /\ all_entries[1].id # all_entries[3].id
    /\ deduped = <<all_entries[2], all_entries[1], all_entries[3]>>

\* The cell was assigned in the cycle that is under way or was the last.
SwappedThisCycle == cycle > 0 /\ ver.main = cycle

\* C22: when the fetcher goes for the write lock, and so whenever this
\* cycle has assigned the cell, each category's collection has been given to
\* save_entries in this cycle; a write that fails does not end the thread,
\* which ends only inside a fetch; and whether the writes succeeded or not,
\* what the cycle assigns to the cell is what it gave to save_entries.
SavedBeforeSwap ==
    /\ bg_pc \in {"write_lock", "assign", "unlock"} \/ SwappedThisCycle =>
          \A cat \in {"main", "noisy"} :
              /\ handed[cat] # None
              /\ handed[cat][1].entries = bg_local[cat]
    /\ bg_pc = "panicked" => handed[bg_cat] = None
    /\ SwappedThisCycle =>
          \A cat \in {"main", "noisy"} : state[cat] = handed[cat][1].entries

\* Both writes of the first cycle failed and left no file, and the cycle has
\* assigned its main collection of three entries to the cell.
FailedWritesStillPublish ==
    /\ bg_pc = "unlock"
    /\ cycle = 1
    /\ handed.main # None /\ ~handed.main[1].ok
    /\ handed.noisy # None /\ ~handed.noisy[1].ok
    /\ files = NoFiles
    /\ Len(state.main) = 3
    /\ state.main = handed.main[1].entries

\* What fetch_and_save makes of the fetches of this cycle alone.
Computed(cat) == SortBy(Dedup(EntriesOfSucceeded(Feeds(cat), got[cat]), {}))

\* Every fetch of the category in this cycle failed.
AllFailed(cat) ==
    /\ Len(got[cat]) = Len(Feeds(cat))
    /\ \A i \in DOMAIN got[cat] : got[cat][i].failed

=============================================================================
